---------------------------- MODULE Spec2Model ----------------------------
(***************************************************************************)
(* zod-select: selection of a sub-schema of a Zod schema by a path string. *)
(*                                                                         *)
(* The runtime resolver `select` (src/src/select.ts: parsePath,            *)
(* traverseSegment, select), the node classifier (src/src/guards.ts) and   *)
(* the type-level mirror `ZodSchemaAt` (src/src/types.ts) are modelled     *)
(* over a registry of schema nodes.  A JavaScript string is a sequence of  *)
(* one-character strings; positions are 0-based as in the source.          *)
(***************************************************************************)
EXTENDS Integers, Sequences, FiniteSets, TLC

VARIABLES schema, path, pc, segments, k, current, result, forced, visited,
          tree, earlier

vars == <<schema, path, pc, segments, k, current, result, forced, visited,
          tree, earlier>>

---------------------------------------------------------------------------
(* Bounds of the explored input space.                                     *)

\* number of pieces a path of the resolver specification is built from
MaxPieces == 3

\* number of characters of a path of the parser specification
MaxPathLen == 5

---------------------------------------------------------------------------
(* JavaScript string primitives used by the source.                        *)

\* path[i], 0-based
At(s, i) == s[i + 1]

\* s.slice(from, to), 0-based, `to` exclusive
slice(s, from, to) == IF to <= from THEN <<>> ELSE SubSeq(s, from + 1, to)

\* s.indexOf(ch, from): the first position >= from holding ch, or -1
indexOf(s, ch, from) ==
    LET hits == {j \in from..(Len(s) - 1) : At(s, j) = ch}
    IN  IF hits = {} THEN -1
        ELSE CHOOSE j \in hits : \A h \in hits : j <= h

Digits == {"0", "1", "2", "3", "4", "5", "6", "7", "8", "9"}

DigitValue(ch) ==
    CASE ch = "0" -> 0 [] ch = "1" -> 1 [] ch = "2" -> 2 [] ch = "3" -> 3
      [] ch = "4" -> 4 [] ch = "5" -> 5 [] ch = "6" -> 6 [] ch = "7" -> 7
      [] ch = "8" -> 8 [] ch = "9" -> 9

RECURSIVE DecimalValue(_)
\* the value of a run of decimal digits
DecimalValue(ds) ==
    IF ds = <<>> THEN 0
    ELSE 10 * DecimalValue(SubSeq(ds, 1, Len(ds) - 1)) + DigitValue(ds[Len(ds)])

RECURSIVE SkipWhiteSpace(_)
SkipWhiteSpace(s) ==
    IF s # <<>> /\ Head(s) = " " THEN SkipWhiteSpace(Tail(s)) ELSE s

\* the longest prefix of s made of decimal digits
DigitPrefix(s) ==
    LET stops == {j \in 1..Len(s) : s[j] \notin Digits}
        end   == IF stops = {} THEN Len(s)
                 ELSE (CHOOSE j \in stops : \A h \in stops : j <= h) - 1
    IN  SubSeq(s, 1, end)

\* parseInt(content, 10): leading white space is skipped, one sign is
\* accepted, then the longest run of digits is read and whatever follows it
\* is ignored; no digit at all gives NaN.  (-0 is the number 0.)
parseInt(content) ==
    LET t      == SkipWhiteSpace(content)
        signed == t # <<>> /\ Head(t) \in {"+", "-"}
        body   == IF signed THEN Tail(t) ELSE t
        ds     == DigitPrefix(body)
    IN  IF ds = <<>> THEN [isNaN |-> TRUE, value |-> 0]
        ELSE [isNaN |-> FALSE,
              value |-> IF signed /\ Head(t) = "-"
                        THEN 0 - DecimalValue(ds) ELSE DecimalValue(ds)]

---------------------------------------------------------------------------
(* parsePath                                                               *)

PropertySeg(name) == [type |-> "property", name |-> name]
\* mutant: empty brackets are read as the first index
ElementSegAsIndex == [type |-> "index", index |-> 0]
ElementSeg        == [type |-> "element"]
IndexSeg(n)       == [type |-> "index", index |-> n]

\* the three Error messages parsePath throws, with the values interpolated
UnclosedBracket(i) == [error |-> "unclosed bracket", position |-> i]
InvalidIndex(content, i) ==
    [error |-> "invalid index", content |-> content, position |-> i]
EmptyPropertyName(i) == [error |-> "empty property name", position |-> i]

Parsed(segs) == [ok |-> TRUE, segments |-> segs]
ParseThrows(e) == [ok |-> FALSE, error |-> e]

\* mutant: only a dot ends a property name
nameEndAtDot(p, i) ==
    IF indexOf(p, ".", i) = -1 THEN Len(p) ELSE indexOf(p, ".", i)

\* end of the property name that starts at i
nameEnd(p, i) ==
    LET nextDot     == indexOf(p, ".", i)
        nextBracket == indexOf(p, "[", i)
    IN  IF nextDot = -1 /\ nextBracket = -1 THEN Len(p)
        ELSE IF nextDot = -1 THEN nextBracket
        ELSE IF nextBracket = -1 THEN nextDot
        ELSE IF nextDot < nextBracket THEN nextDot ELSE nextBracket

\* mutant: a bracket that is never closed runs to the end of the string
findCloseOrEnd(p, i) ==
    IF indexOf(p, "]", i) = -1 THEN Len(p) ELSE indexOf(p, "]", i)

\* path.indexOf("]", i)
findClose(p, i) == indexOf(p, "]", i)

\* the index test of a bracket group's content
indexRejected(index) == index.isNaN \/ index.value < 0

\* mutant: a dot is skipped only in front of a property name
skipsDotBeforeName(p, i) ==
    At(p, i) = "." /\ ~(i + 1 < Len(p) /\ At(p, i + 1) = "[")

\* path[i] === "."
skipsDot(p, i) == At(p, i) = "."

RECURSIVE parseLoop(_, _, _)
\* one iteration of the while loop of parsePath, at position i
parseLoop(p, i, segs) ==
    IF ~(i < Len(p)) THEN Parsed(segs)
    ELSE IF skipsDot(p, i) THEN parseLoop(p, i + 1, segs)
    ELSE IF At(p, i) = "[" THEN
        LET closeBracket == findClose(p, i) IN
        IF closeBracket = -1 THEN ParseThrows(UnclosedBracket(i))
        ELSE LET content == slice(p, i + 1, closeBracket) IN
             IF content = <<>>
             THEN parseLoop(p, closeBracket + 1, Append(segs, ElementSeg))
             ELSE LET index == parseInt(content) IN
                  IF indexRejected(index)
                  THEN ParseThrows(InvalidIndex(content, i))
                  ELSE parseLoop(p, closeBracket + 1,
                                 Append(segs, IndexSeg(index.value)))
    ELSE LET end  == nameEnd(p, i)
             name == slice(p, i, end)
         IN  IF name = <<>> THEN ParseThrows(EmptyPropertyName(i))
             ELSE parseLoop(p, end, Append(segs, PropertySeg(name)))

parsePath(p) == parseLoop(p, 0, <<>>)

---------------------------------------------------------------------------
(* The schema tree: nodes of the external schema library, by identity.     *)
(* Every node carries `_zod.def.type`; the other fields are the accessors  *)
(* the resolver reads.  The registry holds every kind, a chain of the six  *)
(* wrappers around a container, a pipe whose input and output differ, and  *)
(* schemas that refer to themselves through lazy nodes.                    *)

Name(ch) == <<ch>>

Registry ==
    <<  \* 1: z.object({ a, c, d })
        [type |-> "object",
         shape |-> (Name("a") :> 2) @@ (Name("c") :> 10) @@ (Name("d") :> 13)],
        \* 2..5: .optional() / .nullable() / .default() / .readonly()
        [type |-> "optional", innerType |-> 3],
        [type |-> "nullable", innerType |-> 4],
        [type |-> "default",  innerType |-> 5],
        [type |-> "readonly", innerType |-> 6],
        \* 6: z.lazy(() => node 7)
        [type |-> "lazy", innerType |-> 7],
        \* 7: object 12 piped into array 8
        [type |-> "pipe", in |-> 12, out |-> 8],
        \* 8, 9: z.array(z.array(tuple 11))
        [type |-> "array", element |-> 9],
        [type |-> "array", element |-> 11],
        \* 10: z.record(z.string(), node 2)
        [type |-> "record", valueType |-> 2],
        \* 11: z.tuple([string, number, object 12])
        [type |-> "tuple", items |-> <<15, 16, 12>>],
        \* 12: z.object({ a, c, d })
        [type |-> "object",
         shape |-> (Name("a") :> 6) @@ (Name("c") :> 15) @@ (Name("d") :> 9)],
        \* 13: z.union([lazy 14, string])
        [type |-> "union", options |-> <<14, 15>>],
        \* 14: z.lazy(() => node 1), a schema that contains itself
        [type |-> "lazy", innerType |-> 1],
        \* 15: a leaf whose def holds fields named like the accessors of the
        \* containers and wrappers (as z.map has valueType, z.catch innerType)
        [type |-> "string",
         shape |-> (Name("a") :> 16), element |-> 16, valueType |-> 16,
         items |-> <<16>>, options |-> <<16>>, innerType |-> 16, out |-> 16],
        \* 16: a leaf
        [type |-> "number"],
        \* 17: const x = z.lazy(() => x)
        [type |-> "lazy", innerType |-> 17]  >>

Nodes == DOMAIN Registry

\* a value that is no schema: the function found on Object.prototype
NotASchema == 0

\* `name in shape` also finds what the shape object inherits from
\* Object.prototype; "constructor" stands for those inherited keys
ObjectPrototypeKeys ==
    {<<"c", "o", "n", "s", "t", "r", "u", "c", "t", "o", "r">>}

---------------------------------------------------------------------------
(* Node classifier: src/src/guards.ts                                      *)

\* schema._zod?.def?.type
defType(s) == IF s \in Nodes THEN tree[s].type ELSE "undefined"

isZodObject(s)   == defType(s) = "object"
\* mutant: an array is what has an element
isZodArrayByAccessor(s) == s \in Nodes /\ "element" \in DOMAIN tree[s]
isZodArray(s)    == defType(s) = "array"
\* mutant: the record guard tests the tag of another kind
isZodRecordAsMap(s) == defType(s) = "map"
isZodRecord(s)   == defType(s) = "record"
isZodTuple(s)    == defType(s) = "tuple"
isZodUnion(s)    == defType(s) = "union"
isZodOptional(s) == defType(s) = "optional"
isZodNullable(s) == defType(s) = "nullable"
isZodDefault(s)  == defType(s) = "default"
\* mutant: readonly is not seen as a wrapper
isZodReadonlyUnhandled(s) == FALSE
isZodReadonly(s) == defType(s) = "readonly"
\* mutant: lazy is not seen as a wrapper
isZodLazyUnhandled(s) == FALSE
isZodLazy(s)     == defType(s) = "lazy"
isZodPipe(s)     == defType(s) = "pipe"

---------------------------------------------------------------------------
(* traverseSegment                                                         *)

Returned(v) == [status |-> "returned", value |-> v]
Thrown(e)   == [status |-> "thrown", error |-> e]

\* the Error messages traverseSegment throws, with the values interpolated
NotAnObject(fullPath, name, got) ==
    [error |-> "cannot access property on non-object schema",
     path |-> fullPath, name |-> name, got |-> got]
\* mutant: the message names the segment where the full path belongs
UnknownPropertySegmentOnly(fullPath, name) ==
    [error |-> "property does not exist on object schema",
     path |-> name, name |-> name]
UnknownProperty(fullPath, name) ==
    [error |-> "property does not exist on object schema",
     path |-> fullPath, name |-> name]
NotElementAccessible(fullPath, got) ==
    [error |-> "cannot use [] on non-array/record schema",
     path |-> fullPath, got |-> got]
TupleIndexOutOfBounds(fullPath, index, length) ==
    [error |-> "tuple index out of bounds",
     path |-> fullPath, index |-> index, length |-> length]
UnionIndexOutOfBounds(fullPath, index, options) ==
    [error |-> "union index out of bounds",
     path |-> fullPath, index |-> index, options |-> options]
\* mutant: the message of the branch above, copied
NotIndexAccessibleAsElement(fullPath, index, got) ==
    [error |-> "cannot use [] on non-array/record schema",
     path |-> fullPath, index |-> index, got |-> got]
NotIndexAccessible(fullPath, index, got) ==
    [error |-> "cannot use [n] on non-tuple/union schema",
     path |-> fullPath, index |-> index, got |-> got]
\* reading `schema._zod.def` of a value without `_zod` while the message is
\* built
TypeError == [error |-> "TypeError: cannot read properties of undefined"]
\* the recursion of traverseSegment never ends
RangeError == [error |-> "RangeError: maximum call stack size exceeded"]

\* throwing a message that holds `${schema._zod.def.type}`: building it
\* throws a TypeError for a value without `_zod`
ThrownNaming(s, message) ==
    IF s \in Nodes THEN Thrown(message) ELSE Thrown(TypeError)

\* `segment.name in shape`
hasProperty(shape, name) ==
    name \in DOMAIN shape \/ name \in ObjectPrototypeKeys

\* mutant: the selected child is unwrapped before it is returned
getPropertyUnwrapped(shape, name) ==
    IF name \notin DOMAIN shape THEN NotASchema
    ELSE IF defType(shape[name]) \in
            {"optional", "nullable", "default", "readonly", "lazy"}
    THEN tree[shape[name]].innerType
    ELSE shape[name]

\* shape[segment.name]
getProperty(shape, name) ==
    IF name \in DOMAIN shape THEN shape[name] ELSE NotASchema

\* mutant: the bound test is off by one
outOfBoundsOffByOne(index, length) == index >= length - 1

\* segment.index >= items.length
outOfBounds(index, length) == index >= length

\* mutant: the lazy node is passed on where its inner schema belongs
lazyInnerSelf(s) == s

\* schema._zod.innerType of a lazy schema
lazyInner(s) == tree[s].innerType

\* mutant: the pipe is followed into its input schema
pipeIn(s) == tree[s].in

\* schema._zod.def.out of a pipe schema
pipeOut(s) == tree[s].out

\* A chain of more nested calls than there are nodes passes twice through
\* the same wrapper, so the recursion never returns and the call stack
\* overflows.
StackLimit == Cardinality(Nodes)

RECURSIVE traverseSegmentAt(_, _, _, _)
\* traverseSegment, `depth` nested calls below the call made by select
traverseSegmentAt(s, segment, fullPath, depth) ==
    IF depth > StackLimit THEN Thrown(RangeError)
    \* unwrap wrapper types first
    ELSE IF isZodOptional(s) THEN
        traverseSegmentAt(tree[s].innerType, segment, fullPath, depth + 1)
    ELSE IF isZodNullable(s) THEN
        traverseSegmentAt(tree[s].innerType, segment, fullPath, depth + 1)
    ELSE IF isZodDefault(s) THEN
        traverseSegmentAt(tree[s].innerType, segment, fullPath, depth + 1)
    ELSE IF isZodReadonly(s) THEN
        traverseSegmentAt(tree[s].innerType, segment, fullPath, depth + 1)
    ELSE IF isZodLazy(s) THEN
        traverseSegmentAt(lazyInner(s), segment, fullPath, depth + 1)
    ELSE IF isZodPipe(s) THEN
        traverseSegmentAt(pipeOut(s), segment, fullPath, depth + 1)
    \* handle segment types
    ELSE IF segment.type = "property" THEN
        IF ~isZodObject(s)
        THEN ThrownNaming(s, NotAnObject(fullPath, segment.name, defType(s)))
        ELSE LET shape == tree[s].shape IN
             IF ~hasProperty(shape, segment.name)
             THEN Thrown(UnknownProperty(fullPath, segment.name))
             ELSE Returned(getProperty(shape, segment.name))
    ELSE IF segment.type = "element" THEN
        IF isZodArray(s) THEN Returned(tree[s].element)
        ELSE IF isZodRecord(s) THEN Returned(tree[s].valueType)
        ELSE ThrownNaming(s, NotElementAccessible(fullPath, defType(s)))
    ELSE
        IF isZodTuple(s) THEN
            LET items == tree[s].items IN
            IF outOfBounds(segment.index, Len(items))
            THEN Thrown(TupleIndexOutOfBounds(fullPath, segment.index, Len(items)))
            ELSE Returned(items[segment.index + 1])
        ELSE IF isZodUnion(s) THEN
            LET options == tree[s].options IN
            IF outOfBounds(segment.index, Len(options))
            THEN Thrown(UnionIndexOutOfBounds(fullPath, segment.index, Len(options)))
            ELSE Returned(options[segment.index + 1])
        ELSE ThrownNaming(s, NotIndexAccessible(fullPath, segment.index, defType(s)))

traverseSegment(s, segment, fullPath) ==
    traverseSegmentAt(s, segment, fullPath, 0)

RECURSIVE calledOn(_, _)
\* the schemas the nested calls of one traverseSegment receive, in order
calledOn(s, depth) ==
    IF depth > StackLimit THEN <<>>
    ELSE IF isZodOptional(s) \/ isZodNullable(s) \/ isZodDefault(s)
            \/ isZodReadonly(s)
    THEN <<s>> \o calledOn(tree[s].innerType, depth + 1)
    ELSE IF isZodLazy(s) THEN <<s>> \o calledOn(lazyInner(s), depth + 1)
    ELSE IF isZodPipe(s) THEN <<s>> \o calledOn(pipeOut(s), depth + 1)
    ELSE <<s>>

\* the lazy nodes whose `_zod.innerType` getter those calls read
lazyForced(s) ==
    LET trail == calledOn(s, 0)
    IN  {trail[j] : j \in {h \in 1..Len(trail) : isZodLazy(trail[h])}}

---------------------------------------------------------------------------
(* select                                                                  *)

RECURSIVE fold(_, _, _, _)
\* the for loop of select, from segment j on
fold(cur, segs, j, fullPath) ==
    IF j > Len(segs) THEN Returned(cur)
    ELSE LET r == traverseSegment(cur, segs[j], fullPath) IN
         IF r.status = "thrown" THEN r
         ELSE fold(r.value, segs, j + 1, fullPath)

\* select(schema, path): what the call returns or throws
select(s, p) ==
    IF p = <<>> THEN Returned(s)
    ELSE LET parsed == parsePath(p) IN
         IF ~parsed.ok THEN Thrown(parsed.error)
         ELSE fold(s, parsed.segments, 1, p)

---------------------------------------------------------------------------
(* The type-level mirror: src/src/types.ts.  The static type of a schema   *)
(* node is the node; `never` and `undefined` are the two other results.    *)

Never == -1

\* Items[n] for a literal n that is no element position of the tuple type
Undefined == -2

\* S extends `.${infer Rest}` ? Rest : S
TrimLeadingDot(S) == IF S # <<>> /\ Head(S) = "." THEN Tail(S) ELSE S

Bracketed(Idx) == <<"[">> \o Idx \o <<"]">>

RECURSIVE ParsePath(_)
\* A template literal pattern matches each `infer` against the text up to
\* the first occurrence of the literal that follows it.
ParsePath(P) ==
    LET open  == indexOf(P, "[", 0)
        close == IF open = -1 THEN -1 ELSE indexOf(P, "]", open + 1)
        dot   == indexOf(P, ".", 0)
    IN  IF open # -1 /\ close # -1 THEN
            LET Hd   == slice(P, 0, open)
                Idx  == slice(P, open + 1, close)
                Rest == slice(P, close + 1, Len(P))
            IN  IF Hd = <<>>
                THEN <<Bracketed(Idx)>> \o ParsePath(TrimLeadingDot(Rest))
                ELSE <<Hd, Bracketed(Idx)>> \o ParsePath(TrimLeadingDot(Rest))
        ELSE IF dot # -1 THEN
            <<slice(P, 0, dot)>> \o ParsePath(slice(P, dot + 1, Len(P)))
        ELSE IF P = <<>> THEN <<>>
        ELSE <<P>>

\* N extends `${number}`: N is not empty and +N is a finite number.  Over
\* the characters of the modelled paths that is an optional sign and
\* decimal digits with at most one decimal point.
IsNumberString(N) ==
    LET signed == N # <<>> /\ Head(N) \in {"+", "-"}
        body   == IF signed THEN Tail(N) ELSE N
    IN  /\ \A j \in 1..Len(body) : body[j] \in Digits \cup {"."}
        /\ Cardinality({j \in 1..Len(body) : body[j] = "."}) <= 1
        /\ \E j \in 1..Len(body) : body[j] \in Digits

\* N extends `${infer Num extends number}`: a number literal is inferred
\* only when printing the number gives N back
RoundTrips(N) ==
    LET neg   == N # <<>> /\ Head(N) = "-"
        body  == IF neg THEN Tail(N) ELSE N
        dot   == indexOf(body, ".", 0)
        whole == IF dot = -1 THEN body ELSE slice(body, 0, dot)
        frac  == IF dot = -1 THEN <<>> ELSE slice(body, dot + 1, Len(body))
        zero  == \A j \in 1..Len(body) : body[j] \in {"0", "."}
    IN  /\ IsNumberString(N)
        /\ Head(N) # "+"
        /\ whole # <<>>
        /\ Len(whole) > 1 => Head(whole) # "0"
        /\ dot # -1 => (frac # <<>> /\ frac[Len(frac)] # "0")
        /\ ~(neg /\ zero)

IsElementAccessor(Segment) == Segment = <<"[", "]">>

\* the text between the brackets of `[${infer N}]`
BracketContent(Segment) == slice(Segment, 1, Len(Segment) - 1)

IsBracketed(Segment) ==
    Len(Segment) >= 2 /\ Head(Segment) = "[" /\ Segment[Len(Segment)] = "]"

IsIndexAccessor(Segment) ==
    /\ IsBracketed(Segment)
    /\ BracketContent(Segment) # <<>>
    /\ IsNumberString(BracketContent(Segment))

\* ExtractIndex<Segment> extends keyof Items ? Items[ExtractIndex<Segment>]
\* : never.  keyof of a tuple type contains `number`, so every number
\* literal passes the test; a position outside the tuple has type undefined.
\* When no number literal is inferred ExtractIndex is never, and so is
\* Items[never].
ItemAt(Items, Segment) ==
    LET N == BracketContent(Segment) IN
    IF ~RoundTrips(N) THEN Never
    ELSE IF (\A j \in 1..Len(N) : N[j] \in Digits) /\ DecimalValue(N) < Len(Items)
    THEN Items[DecimalValue(N) + 1]
    ELSE Undefined

RECURSIVE ResolveSegment(_, _)
ResolveSegment(T, Segment) ==
    IF T \notin Nodes THEN Never
    ELSE IF Registry[T].type = "object" THEN
        IF Segment \in DOMAIN Registry[T].shape
        THEN Registry[T].shape[Segment] ELSE Never
    ELSE IF Registry[T].type = "array" THEN
        IF IsElementAccessor(Segment) THEN Registry[T].element ELSE Never
    ELSE IF Registry[T].type = "record" THEN
        IF IsElementAccessor(Segment) THEN Registry[T].valueType ELSE Never
    ELSE IF Registry[T].type = "tuple" THEN
        IF IsIndexAccessor(Segment)
        THEN ItemAt(Registry[T].items, Segment) ELSE Never
    ELSE IF Registry[T].type = "union" THEN
        IF IsIndexAccessor(Segment)
        THEN ItemAt(Registry[T].options, Segment) ELSE Never
    ELSE IF Registry[T].type \in {"optional", "nullable", "default", "readonly"}
    THEN ResolveSegment(Registry[T].innerType, Segment)
    ELSE Never

RECURSIVE ResolvePath(_, _)
ResolvePath(T, Segments) ==
    IF Segments = <<>> THEN T
    ELSE ResolvePath(ResolveSegment(T, Head(Segments)), Tail(Segments))

ZodSchemaAt(T, P) == ResolvePath(T, ParsePath(P))

---------------------------------------------------------------------------
(* Inputs                                                                  *)

\* Resolver specification: a path is a concatenation of at most MaxPieces
\* pieces: property names, separators, bracket groups, an opening bracket.
Pieces ==
    { <<"a">>, <<"c">>, <<"d">>, <<".">>, <<"[">>,
      <<"[", "]">>, <<"[", "0", "]">>, <<"[", "2", "]">>, <<"[", "3", "]">>,
      <<"[", "1", "0", "]">>,
      <<"c", "o", "n", "s", "t", "r", "u", "c", "t", "o", "r">> }

RECURSIVE PiecePaths(_)
PiecePaths(n) ==
    IF n = 0 THEN {<<>>}
    ELSE LET shorter == PiecePaths(n - 1)
         IN  shorter \cup {q \o piece : q \in shorter, piece \in Pieces}

\* Parser specification: every string of at most MaxPathLen characters
Alphabet == {"a", ".", "[", "]", "0", "1", "-"}

CharPaths == UNION {[1..n -> Alphabet] : n \in 0..MaxPathLen}

\* the roots the parser specification addresses
ParseRoots == {11, 17}

\* the paths of the call made between two calls with the same path
OtherPaths == PiecePaths(1)

---------------------------------------------------------------------------
(* One call of select(schema, path), step by step.                         *)
(*   pc = "call"  the call is made                                         *)
(*   pc = "loop"  parsePath has returned; the for loop is at segment k     *)
(*   pc = "done"  the call has returned or thrown: result                  *)
(*   pc = "hung"  the call never returns                                   *)
(* `tree` holds the fields of the schema objects, `forced` the lazy nodes  *)
(* whose innerType getter has been read, `earlier` the paths and outcomes  *)
(* of the calls made before this one against the same tree.               *)

NoResult == [status |-> "running"]

Start(paths, roots) ==
    /\ schema \in roots
    /\ path \in paths
    /\ pc = "call"
    /\ segments = <<>>
    /\ k = 1
    /\ current = schema
    /\ result = NoResult
    /\ forced = {}
    /\ visited = <<>>
    /\ tree = Registry
    /\ earlier = <<>>

Init == Start(PiecePaths(MaxPieces), Nodes)

InitParse == Start(CharPaths, ParseRoots)

InitCalls == Start(PiecePaths(MaxPieces - 1), Nodes)

\* mutant: the empty path unwraps the root like any other step
SelectEmptyUnwraps ==
    /\ pc = "call"
    /\ path = <<>>
    /\ result' = Returned(calledOn(schema, 0)[Len(calledOn(schema, 0))])
    /\ pc' = "done"
    /\ forced' = forced \cup lazyForced(schema)
    /\ UNCHANGED <<tree, earlier, schema, path, segments, k, current, visited>>

\* line 183: the empty path returns the schema
SelectEmpty ==
    /\ pc = "call"
    /\ path = <<>>
    /\ result' = Returned(schema)
    /\ pc' = "done"
    /\ UNCHANGED <<tree, earlier, schema, path, segments, k, current, forced, visited>>

\* line 187: parsePath throws
ParseFails ==
    /\ pc = "call"
    /\ path # <<>>
    /\ ~parsePath(path).ok
    /\ result' = Thrown(parsePath(path).error)
    /\ pc' = "done"
    /\ UNCHANGED <<tree, earlier, schema, path, segments, k, current, forced, visited>>

\* mutant: the parsed segments are cached, and the cache is not keyed by
\* the path
ParseSucceedsCached ==
    /\ pc = "call"
    /\ path # <<>>
    /\ parsePath(path).ok
    /\ segments' =
         IF earlier # <<>> /\ parsePath(earlier[Len(earlier)].path).ok
         THEN parsePath(earlier[Len(earlier)].path).segments
         ELSE parsePath(path).segments
    /\ current' = schema
    /\ k' = 1
    /\ pc' = "loop"
    /\ UNCHANGED <<tree, earlier, schema, path, result, forced, visited>>

\* lines 187-188: parsePath returns the segments
ParseSucceeds ==
    /\ pc = "call"
    /\ path # <<>>
    /\ parsePath(path).ok
    /\ segments' = parsePath(path).segments
    /\ current' = schema
    /\ k' = 1
    /\ pc' = "loop"
    /\ UNCHANGED <<tree, earlier, schema, path, result, forced, visited>>

\* mutant: a lazy node that is unwrapped is replaced in the tree by the
\* schema it stands for
TraverseReturnsReplacingLazy ==
    /\ pc = "loop"
    /\ k <= Len(segments)
    /\ LET r == traverseSegment(current, segments[k], path) IN
        /\ r.status = "returned"
        /\ current' = r.value
    /\ k' = k + 1
    /\ forced' = forced \cup lazyForced(current)
    /\ visited' = visited \o calledOn(current, 0)
    /\ tree' = [n \in Nodes |->
                  IF n \in lazyForced(current) THEN tree[lazyInner(n)]
                  ELSE tree[n]]
    /\ UNCHANGED <<earlier, schema, path, pc, segments, result>>

\* mutant: every segment is applied to the schema the call was given
TraverseReturnsFromRoot ==
    /\ pc = "loop"
    /\ k <= Len(segments)
    /\ LET r == traverseSegment(schema, segments[k], path) IN
        /\ r.status = "returned"
        /\ current' = r.value
    /\ k' = k + 1
    /\ forced' = forced \cup lazyForced(schema)
    /\ visited' = visited \o calledOn(schema, 0)
    /\ UNCHANGED <<tree, earlier, schema, path, pc, segments, result>>

\* lines 190-192: one iteration of the for loop, traverseSegment returns
TraverseReturns ==
    /\ pc = "loop"
    /\ k <= Len(segments)
    /\ LET r == traverseSegment(current, segments[k], path) IN
        /\ r.status = "returned"
        /\ current' = r.value
    /\ k' = k + 1
    /\ forced' = forced \cup lazyForced(current)
    /\ visited' = visited \o calledOn(current, 0)
    /\ UNCHANGED <<tree, earlier, schema, path, pc, segments, result>>

\* mutant: the loop goes on after a failure and reports the last one
TraverseThrowsLast ==
    /\ pc = "loop"
    /\ k <= Len(segments)
    /\ LET r == traverseSegment(current, segments[k], path) IN
        /\ r.status = "thrown"
        /\ result' = r
    /\ IF k < Len(segments)
       THEN k' = k + 1 /\ pc' = "loop"
       ELSE k' = k /\ pc' = "done"
    /\ forced' = forced \cup lazyForced(current)
    /\ visited' = visited \o calledOn(current, 0)
    /\ UNCHANGED <<tree, earlier, schema, path, segments, current>>

\* lines 190-192: one iteration of the for loop, traverseSegment throws
TraverseThrows ==
    /\ pc = "loop"
    /\ k <= Len(segments)
    /\ LET r == traverseSegment(current, segments[k], path) IN
        /\ r.status = "thrown"
        /\ result' = r
    /\ pc' = "done"
    /\ forced' = forced \cup lazyForced(current)
    /\ visited' = visited \o calledOn(current, 0)
    /\ UNCHANGED <<tree, earlier, schema, path, segments, k, current>>

\* lines 95-113: the chain of wrappers comes back to itself and the engine
\* makes the nested calls as tail calls: the recursion goes on for ever
TraverseNeverReturns ==
    /\ pc = "loop"
    /\ k <= Len(segments)
    /\ traverseSegment(current, segments[k], path) = Thrown(RangeError)
    /\ pc' = "hung"
    /\ forced' = forced \cup lazyForced(current)
    /\ visited' = visited \o calledOn(current, 0)
    /\ UNCHANGED <<tree, earlier, schema, path, segments, k, current, result>>

\* mutant: the selected node is resolved before it is returned
SelectReturnsForcing ==
    /\ pc = "loop"
    /\ k > Len(segments)
    /\ result' = Returned(current)
    /\ pc' = "done"
    /\ forced' = forced \cup lazyForced(current)
    /\ UNCHANGED <<tree, earlier, schema, path, segments, k, current, visited>>

\* line 194: the loop is over
SelectReturns ==
    /\ pc = "loop"
    /\ k > Len(segments)
    /\ result' = Returned(current)
    /\ pc' = "done"
    /\ UNCHANGED <<tree, earlier, schema, path, segments, k, current, forced, visited>>

Next ==
    \/ SelectEmpty
    \/ ParseFails
    \/ ParseSucceeds
    \/ TraverseReturns
    \/ TraverseThrows
    \/ TraverseNeverReturns
    \/ SelectReturns

Spec == Init /\ [][Next]_vars

SpecParse == InitParse /\ [][Next]_vars

Done == pc = "done"

\* a new call of select on the same schema: the locals of the finished
\* call are gone, the schema objects (tree, forced) stay
Call(p) ==
    /\ pc = "done"
    /\ earlier' = Append(earlier, [path |-> path, result |-> result])
    /\ path' = p
    /\ pc' = "call"
    /\ segments' = <<>>
    /\ k' = 1
    /\ current' = schema
    /\ result' = NoResult
    /\ visited' = <<>>
    /\ UNCHANGED <<tree, schema, forced>>

\* after the first call, a call with any other path
CallOther == earlier = <<>> /\ \E p \in OtherPaths : Call(p)

\* after that, the first call again
CallAgain == Len(earlier) = 1 /\ Call(earlier[1].path)

NextCalls == Next \/ CallOther \/ CallAgain

SpecCalls == InitCalls /\ [][NextCalls]_vars

---------------------------------------------------------------------------
(* Vocabulary of the properties, read off the registry itself.             *)

WrapperKinds == {"optional", "nullable", "default", "readonly", "lazy", "pipe"}

ContainerKinds == {"object", "array", "record", "tuple", "union"}

KindOf(n) == Registry[n].type

\* the child a wrapper node stands for
InnerOf(n) == IF KindOf(n) = "pipe" THEN Registry[n].out ELSE Registry[n].innerType

RECURSIVE CoreOf(_, _)
\* the node a chain of wrappers is wrapped around
CoreOf(n, fuel) ==
    IF KindOf(n) \in WrapperKinds /\ fuel > 0
    THEN CoreOf(InnerOf(n), fuel - 1) ELSE n

Core(n) == CoreOf(n, Cardinality(Nodes))

DigitOf(d) == <<"0", "1", "2", "3", "4", "5", "6", "7", "8", "9">>[d + 1]

\* n in decimal, for n < 100
Decimal(n) ==
    IF n < 10 THEN <<DigitOf(n)>> ELSE <<DigitOf(n \div 10), DigitOf(n % 10)>>

\* the path "[n]"
IndexPath(n) == <<"[">> \o Decimal(n) \o <<"]">>

ElementPath == <<"[", "]">>

MalformedPathErrors ==
    {"unclosed bracket", "invalid index", "empty property name"}

PathResolutionErrors ==
    { "cannot access property on non-object schema",
      "property does not exist on object schema",
      "cannot use [] on non-array/record schema",
      "tuple index out of bounds",
      "union index out of bounds",
      "cannot use [n] on non-tuple/union schema" }

Failed == Done /\ result.status = "thrown"

Succeeded == Done /\ result.status = "returned"

---------------------------------------------------------------------------
(* C1: select(S, "") returns S itself for a node S of every kind: no       *)
(* wrapper is unwrapped and no lazy node is forced.                        *)
C1_EmptyPathIsIdentity ==
    (Done /\ path = <<>>) => (result = Returned(schema) /\ forced = {})

C1_Witness ==
    Done /\ path = <<>> /\ KindOf(schema) = "lazy" /\ result = Returned(schema)

(* C2: for an object whose shape maps the name p to the child C,           *)
(* select(S, p) returns C itself, also when C is a wrapper.                *)
C2_PropertySelectsChild ==
    (Done /\ KindOf(schema) = "object" /\ path \in DOMAIN Registry[schema].shape)
        => result = Returned(Registry[schema].shape[path])

C2_Witness ==
    /\ Succeeded
    /\ KindOf(schema) = "object"
    /\ path \in DOMAIN Registry[schema].shape
    /\ KindOf(result.value) \in WrapperKinds

(* C3: "[]" selects the element of an array and the value of a record,     *)
(* at the root (path "[]") and behind a property name (path "name[]").     *)
C3_ElementSelectsChild ==
    /\ (Done /\ path = ElementPath /\ KindOf(schema) = "array")
          => result = Returned(Registry[schema].element)
    /\ (Done /\ path = ElementPath /\ KindOf(schema) = "record")
          => result = Returned(Registry[schema].valueType)
    /\ \A name \in (IF KindOf(schema) = "object"
                    THEN DOMAIN Registry[schema].shape ELSE {}) :
          LET child == Registry[schema].shape[name] IN
          /\ (Done /\ path = name \o ElementPath /\ KindOf(child) = "array")
                => result = Returned(Registry[child].element)
          /\ (Done /\ path = name \o ElementPath /\ KindOf(child) = "record")
                => result = Returned(Registry[child].valueType)

C3_Witness ==
    /\ Succeeded
    /\ KindOf(schema) = "object"
    /\ \E name \in DOMAIN Registry[schema].shape :
          /\ path = name \o ElementPath
          /\ KindOf(Registry[schema].shape[name]) = "record"
          /\ result.value = Registry[Registry[schema].shape[name]].valueType

\* the items of a tuple, the options of a union
ListOf(n) ==
    IF KindOf(n) = "tuple" THEN Registry[n].items ELSE Registry[n].options

(* C4: for a tuple or union with list L, select(S, "[n]") returns L[n]     *)
(* when n < len(L) and otherwise fails with index-out-of-bounds, the       *)
(* message holding n and len(L).                                           *)
C4_IndexSelectsOrOutOfBounds ==
    \A n \in 0..99 :
        (Done /\ KindOf(schema) \in {"tuple", "union"} /\ path = IndexPath(n))
        => IF n < Len(ListOf(schema))
           THEN result = Returned(ListOf(schema)[n + 1])
           ELSE /\ result.status = "thrown"
                /\ result.error.index = n
                /\ \/ /\ KindOf(schema) = "tuple"
                      /\ result.error.error = "tuple index out of bounds"
                      /\ result.error.length = Len(ListOf(schema))
                   \/ /\ KindOf(schema) = "union"
                      /\ result.error.error = "union index out of bounds"
                      /\ result.error.options = Len(ListOf(schema))

C4_Witness ==
    /\ Failed
    /\ KindOf(schema) = "union"
    /\ path = IndexPath(Len(ListOf(schema)))
    /\ result.error.error = "union index out of bounds"

(* C5: through a chain of wrappers around a container K, a path with at    *)
(* least one segment (or a malformed one) has the outcome it has on K.     *)
C5_WrappersAreTransparent ==
    ( /\ Done
      /\ KindOf(schema) \in WrapperKinds
      /\ KindOf(Core(schema)) \in ContainerKinds
      /\ path # <<>>
      /\ ~(parsePath(path).ok /\ parsePath(path).segments = <<>>) )
    => result = select(Core(schema), path)

C5_Witness ==
    /\ Succeeded
    /\ KindOf(schema) = "optional"
    /\ KindOf(Core(schema)) = "array"
    /\ Len(segments) = 2
    /\ result = select(Core(schema), path)

(* C6: whenever select returns the schema node N for (S, path), the        *)
(* type-level mirror ZodSchemaAt computes the type of N for the same       *)
(* (S, path); stated for the paths that hold at least one segment.         *)
C6_MirrorAgreesWithSelect ==
    (Succeeded /\ segments # <<>> /\ result.value \in Nodes)
        => ZodSchemaAt(schema, path) = result.value

(* C7: every failure of the traversal carries the complete path string     *)
(* given to select, whichever segment failed.                              *)
C7_FailureCarriesFullPath ==
    (Failed /\ result.error.error \in PathResolutionErrors)
        => result.error.path = path

C7_Witness ==
    /\ Failed
    /\ result.error.error = "property does not exist on object schema"
    /\ k >= 2
    /\ result.error.path = path
    /\ result.error.name # path

\* the content of the path when the path is one bracket group
OnlyContent == slice(path, 1, Len(path) - 1)

(* C8: a bracket group whose content is not empty and not made of decimal  *)
(* digits only makes the parse fail with "invalid index", whatever the     *)
(* schema; stated for the paths that are one bracket group.                *)
C8_NonDigitIndexRejected ==
    ( /\ Done
      /\ Len(path) >= 3
      /\ Head(path) = "["
      /\ indexOf(path, "]", 0) = Len(path) - 1
      /\ \E j \in 1..Len(OnlyContent) : OnlyContent[j] \notin Digits )
    => (result.status = "thrown" /\ result.error.error = "invalid index")

\* the path holds two adjacent dots or ends in a dot
HasEmptyName ==
    \/ \E j \in 1..(Len(path) - 1) : path[j] = "." /\ path[j + 1] = "."
    \/ (path # <<>> /\ path[Len(path)] = ".")

(* C9: a path with two adjacent dots or a final dot never yields a         *)
(* segment list: the call fails with a malformed-path error.               *)
C9_EmptyNameRejected ==
    (Done /\ HasEmptyName)
        => (result.status = "thrown" /\ result.error.error \in MalformedPathErrors)

\* the positions of the "[" that no "]" follows
Unclosed ==
    {j \in 0..(Len(path) - 1) : At(path, j) = "[" /\ indexOf(path, "]", j) = -1}

FirstUnclosed == CHOOSE j \in Unclosed : \A h \in Unclosed : j <= h

(* C10, as stated: a "[" that no "]" follows always makes the parse fail   *)
(* with "unclosed bracket", whatever precedes it.                          *)
C10_UnclosedAlwaysReported ==
    (Done /\ Unclosed # {})
        => (result.status = "thrown" /\ result.error.error = "unclosed bracket")

(* C10, amended: a "[" that no "]" follows always makes the parse fail:    *)
(* with "unclosed bracket" at the first such "[", unless a bracket group   *)
(* before it is rejected as an invalid index, which is then the failure.   *)
C10_UnclosedFailsParse ==
    (Done /\ Unclosed # {})
        => /\ result.status = "thrown"
           /\ \/ result.error = UnclosedBracket(FirstUnclosed)
              \/ /\ result.error.error = "invalid index"
                 /\ result.error.position < FirstUnclosed

C10_Witness ==
    /\ Failed
    /\ Unclosed # {}
    /\ FirstUnclosed > 0
    /\ result.error = UnclosedBracket(FirstUnclosed)

\* the call failed in the traversal, at segment k, applied to `current`
FailedAtSegment == Failed /\ k <= Len(segments)

\* the kind of the node `current` is wrapped around
CurrentKind == KindOf(Core(current))

(* C11: a property segment whose name is not a declared key of the shape   *)
(* of the object it is applied to (after unwrapping) fails with            *)
(* "property does not exist", naming the property and the full path;       *)
(* stated for the paths that are one property segment.                     *)
C11_UndeclaredNameFails ==
    ( /\ Done
      /\ Len(segments) = 1
      /\ segments[1].type = "property"
      /\ KindOf(Core(schema)) = "object"
      /\ segments[1].name \notin DOMAIN Registry[Core(schema)].shape )
    => result = Thrown(UnknownProperty(path, segments[1].name))

\* the for loop is about to apply segment k to `current`, a schema node
\* wrapped around a node that is no wrapper
Applying(type) ==
    /\ pc = "loop"
    /\ k <= Len(segments)
    /\ segments[k].type = type
    /\ current \in Nodes
    /\ CurrentKind \notin WrapperKinds

(* C12: a property segment applied to a node that is, after unwrapping,    *)
(* an array, record, tuple, union or leaf fails with "cannot access        *)
(* property on non-object schema", and the kind the failure names is the   *)
(* kind of the unwrapped node, never a wrapper kind.                       *)
C12_PropertyOnNonObject ==
    [][ (Applying("property") /\ CurrentKind # "object")
        => /\ pc' = "done"
           /\ result' = Thrown(NotAnObject(path, segments[k].name, CurrentKind))
      ]_vars

C12_Witness ==
    /\ FailedAtSegment
    /\ k >= 2
    /\ segments[k].type = "property"
    /\ KindOf(current) \in WrapperKinds
    /\ result.error.error = "cannot access property on non-object schema"
    /\ result.error.got = "array"

(* C13: the segment variant alone decides the dispatch. "[]" applied to   *)
(* a tuple, union, object or leaf fails with "cannot use [] on             *)
(* non-array/record schema"; "[n]" applied to an array, record, object or  *)
(* leaf fails, for every n, with "cannot use [n] on non-tuple/union        *)
(* schema"; each failure names the kind and the full path.                 *)
C13_VariantDecidesDispatch ==
    [][ /\ (Applying("element") /\ CurrentKind \notin {"array", "record"})
           => /\ pc' = "done"
              /\ result'.status = "thrown"
              /\ result'.error.error = "cannot use [] on non-array/record schema"
              /\ result'.error.got = CurrentKind
              /\ result'.error.path = path
        /\ (Applying("index") /\ CurrentKind \notin {"tuple", "union"})
           => /\ pc' = "done"
              /\ result'.status = "thrown"
              /\ result'.error.error = "cannot use [n] on non-tuple/union schema"
              /\ result'.error.index = segments[k].index
              /\ result'.error.got = CurrentKind
              /\ result'.error.path = path
      ]_vars

C13_Witness ==
    /\ FailedAtSegment
    /\ k >= 2
    /\ segments[k] = IndexSeg(0)
    /\ CurrentKind = "array"
    /\ result.error.error = "cannot use [n] on non-tuple/union schema"
    /\ result.error.got = "array"

\* some closed bracket group of the path holds a character that is no digit
HasNonDigitIndex ==
    \E i \in 0..(Len(path) - 1) :
        /\ At(path, i) = "["
        /\ indexOf(path, "]", i) # -1
        /\ \E j \in (i + 1)..(indexOf(path, "]", i) - 1) :
              At(path, j) \notin Digits

\* the path is malformed: an unclosed bracket, an empty property name, an
\* index that is no sequence of digits
Malformed == Unclosed # {} \/ HasEmptyName \/ HasNonDigitIndex

(* C14: a malformed path fails with a malformed-path error whatever the    *)
(* schema is, before any traversal: no node is dispatched on and no lazy   *)
(* node is forced in that call.                                            *)
C14_MalformedFailsBeforeTraversal ==
    (Done /\ Malformed)
        => /\ result.status = "thrown"
           /\ result.error.error \in MalformedPathErrors
           /\ visited = <<>>
           /\ forced = {}

\* what does hold: when parsePath throws, that is the outcome of the call
\* and nothing was traversed
ParseFailureEndsTheCall ==
    (Done /\ path # <<>> /\ ~parsePath(path).ok)
        => /\ result = Thrown(parsePath(path).error)
           /\ visited = <<>>
           /\ forced = {}

\* the elements of a sequence
Range(f) == {f[x] : x \in DOMAIN f}

\* the child links of a node
Children(n) ==
    CASE KindOf(n) = "object" -> Range(Registry[n].shape)
      [] KindOf(n) = "array"  -> {Registry[n].element}
      [] KindOf(n) = "record" -> {Registry[n].valueType}
      [] KindOf(n) = "tuple"  -> Range(Registry[n].items)
      [] KindOf(n) = "union"  -> Range(Registry[n].options)
      [] KindOf(n) \in WrapperKinds -> {InnerOf(n)}
      [] OTHER -> {}

RECURSIVE Closure(_, _)
Closure(set, fuel) ==
    IF fuel = 0 THEN set
    ELSE Closure(set \cup UNION {Children(n) : n \in set}, fuel - 1)

\* the nodes of the tree rooted in each node
Tree == [root \in Nodes |-> Closure({root}, Cardinality(Nodes))]

\* a chain of wrappers that comes back to itself: no node is wrapped
WrapperCycle(n) == KindOf(Core(n)) \in WrapperKinds

\* the roots of the trees in which every chain of wrappers ends in a node
\* that is no wrapper
SoundRoots == {root \in Nodes : \A n \in Tree[root] : ~WrapperCycle(n)}

WrappersEnd(root) == root \in SoundRoots

(* C15: a call that fails fails with a failure of one of the two           *)
(* families, malformed path or path resolution, and no other kind of       *)
(* failure escapes; stated for the schemas whose chains of wrappers end.   *)
C15_OnlyTheTwoFamilies ==
    (Failed /\ WrappersEnd(schema))
        => result.error.error \in MalformedPathErrors \cup PathResolutionErrors

(* C16: whenever select fails for (S, path) with a malformed-path or a    *)
(* path-resolution failure, the type-level mirror ZodSchemaAt reduces to   *)
(* never for the same (S, path).                                           *)
C16_MirrorIsNeverOnFailure ==
    (Failed /\ result.error.error \in MalformedPathErrors \cup PathResolutionErrors)
        => ZodSchemaAt(schema, path) = Never

(* C17: select never changes the schema tree: during and after any call,  *)
(* successful or failing, every node has the kind and the children it had  *)
(* before the call.                                                        *)
C17_TreeUnchanged == tree = Registry

C17_Witness ==
    /\ FailedAtSegment
    /\ k >= 2
    /\ forced # {}
    /\ Len(visited) > k
    /\ tree = Registry

(* C18: every value a successful call returns is a schema node of the     *)
(* tree: the root or a node reachable from it through child links.         *)
C18_ReturnsNodeOfTheTree ==
    Succeeded => result.value \in Tree[schema]

\* what does hold: a returned schema node is a node of the tree
ReturnedNodeIsInTheTree ==
    (Succeeded /\ result.value \in Nodes) => result.value \in Tree[schema]

\* the position the while loop of parsePath goes on from after position i
ScanFrom(i) ==
    IF At(path, i) = "." THEN i + 1
    ELSE IF At(path, i) = "[" THEN findClose(path, i) + 1
    ELSE nameEnd(path, i)

\* every iteration of the while loop throws or moves the position forward
ScanAdvances ==
    \A i \in 0..(Len(path) - 1) :
        \/ (At(path, i) = "[" /\ findClose(path, i) = -1)
        \/ ScanFrom(i) > i

\* the call ended with the call stack exhausted
Overflowed == Failed /\ result.error = RangeError

RECURSIVE ChainOf(_, _)
\* the wrappers around a node, from the outermost on, and the node wrapped
ChainOf(n, fuel) ==
    IF n \notin Nodes THEN {}
    ELSE IF KindOf(n) \in WrapperKinds /\ fuel > 0
    THEN {n} \cup ChainOf(InnerOf(n), fuel - 1)
    ELSE {n}

\* the lazy nodes that have to be resolved to know what `n` wraps
LazyAround == [n \in Nodes \cup {NotASchema} |->
                 {m \in ChainOf(n, Cardinality(Nodes)) : KindOf(m) = "lazy"}]

(* C21: a lazy node is forced only by a step that applies a segment to the *)
(* current node, and only when it is the current node or a wrapper the     *)
(* unwrapping of the current node passes: returning the root of an empty   *)
(* path or the node selected by the last segment forces nothing.           *)
C21_LazyForcedOnlyWhenNeeded ==
    [][ \/ forced' = forced
        \/ /\ pc = "loop"
           /\ k <= Len(segments)
           /\ forced' = forced \cup LazyAround[current]
      ]_vars

\* the last segment selects a lazy node, which is returned as it is
C21_Witness ==
    /\ Succeeded
    /\ Len(segments) = 2
    /\ Len(visited) = 2
    /\ result.value \in Nodes
    /\ KindOf(result.value) = "lazy"
    /\ forced = {}

(* C22: on a pipe, a path with at least one segment has the outcome it    *)
(* has on the output schema of the pipe, never the one it has on the       *)
(* input schema.                                                           *)
C22_PipeContinuesIntoOutput ==
    (Done /\ KindOf(schema) = "pipe" /\ segments # <<>>)
        => result = select(Registry[schema].out, path)

C22_Witness ==
    /\ Succeeded
    /\ KindOf(schema) = "pipe"
    /\ Len(segments) = 2
    /\ result = select(Registry[schema].out, path)
    /\ select(Registry[schema].in, path).status = "thrown"

\* the positions of the path, 0-based
Positions == 0..(Len(path) - 1)

Opens == {i \in Positions : At(path, i) = "["}

\* the position of the first "]" after position i, or the length of the path
CloseOf(i) ==
    LET after == {j \in Positions : j > i /\ At(path, j) = "]"}
    IN  IF after = {} THEN Len(path)
        ELSE CHOOSE j \in after : \A h \in after : j <= h

\* position i lies in a bracket group, behind its "["
InGroup(i) == \E o \in Opens : o < i /\ i <= CloseOf(o)

\* the path follows the grammar: every "[" is closed and holds digits only,
\* no "]" stands alone, and every "." is followed by a name or a bracket
WellFormed ==
    /\ \A o \in Opens :
          /\ CloseOf(o) < Len(path)
          /\ \A j \in (o + 1)..(CloseOf(o) - 1) : At(path, j) \in Digits
    /\ \A i \in Positions : At(path, i) = "]" => InGroup(i)
    /\ \A i \in Positions :
          At(path, i) = "." => (i + 1 < Len(path) /\ At(path, i + 1) # ".")

\* the positions where a property-name run or a bracket group starts
RunStarts ==
    Opens \cup
    {i \in Positions :
        /\ At(path, i) \notin {".", "["}
        /\ ~InGroup(i)
        /\ (i = 0 \/ At(path, i - 1) = "." \/ InGroup(i - 1))}

\* the j-th of them from the left
NthStart(j) ==
    CHOOSE i \in RunStarts : Cardinality({h \in RunStarts : h < i}) = j - 1

\* the end of the name run that starts at i
RunEnd(i) ==
    LET stops == {j \in Positions : j > i /\ At(path, j) \in {".", "["}}
    IN  IF stops = {} THEN Len(path)
        ELSE CHOOSE j \in stops : \A h \in stops : j <= h

RECURSIVE NumberOf(_)
\* the number a sequence of digits writes
NumberOf(digits) ==
    IF digits = <<>> THEN 0
    ELSE 10 * NumberOf(SubSeq(digits, 1, Len(digits) - 1))
         + (CHOOSE d \in 0..9 : DigitOf(d) = digits[Len(digits)])

\* the segment the run that starts at i stands for
SegmentOfRun(i) ==
    IF At(path, i) = "[" THEN
        IF CloseOf(i) = i + 1 THEN [type |-> "element"]
        ELSE [type |-> "index",
              index |-> NumberOf(SubSeq(path, i + 2, CloseOf(i)))]
    ELSE [type |-> "property", name |-> SubSeq(path, i + 1, RunEnd(i))]

(* C23: for a well-formed path the parser emits one segment per            *)
(* property-name run and one per bracket group, in the order of the        *)
(* string, none dropped, merged, duplicated or reordered; the empty        *)
(* string gives the empty list.                                            *)
C23_OneSegmentPerRun ==
    /\ (pc # "call" /\ WellFormed)
          => /\ Len(segments) = Cardinality(RunStarts)
             /\ \A j \in 1..Len(segments) : segments[j] = SegmentOfRun(NthStart(j))
             /\ ~(Failed /\ result.error.error \in MalformedPathErrors)
    /\ path = <<>> => parsePath(path) = Parsed(<<>>)

C23_Witness ==
    /\ Done
    /\ WellFormed
    /\ Len(segments) = 3
    /\ segments[1].type = "property"
    /\ segments[2].type = "index"
    /\ segments[3].type = "property"
    /\ \A j \in 1..3 : segments[j] = SegmentOfRun(NthStart(j))

RECURSIVE ElementAt(_, _)
\* the node j levels of array below n, or NotASchema when n is not nested
\* that deep
ElementAt(n, j) ==
    IF j = 0 THEN n
    ELSE IF n \in Nodes /\ KindOf(n) = "array"
    THEN ElementAt(Registry[n].element, j - 1)
    ELSE NotASchema

RECURSIVE Brackets(_)
\* the path of j consecutive "[]"
Brackets(j) == IF j = 0 THEN <<>> ELSE Brackets(j - 1) \o ElementPath

(* C24: consecutive "[]" consume one level of array each: on arrays        *)
(* nested k deep around E, k times "[]" returns E and j < k times "[]"     *)
(* returns the array j levels down.                                        *)
C24_BracketsConsumeOneLevelEach ==
    \A j \in 0..MaxPieces :
        ( /\ Done
          /\ path = Brackets(j)
          /\ KindOf(schema) = "array"
          /\ ElementAt(schema, j) # NotASchema )
        => result = Returned(ElementAt(schema, j))

C24_Witness ==
    /\ Succeeded
    /\ path = Brackets(2)
    /\ KindOf(schema) = "array"
    /\ KindOf(ElementAt(schema, 1)) = "array"
    /\ KindOf(result.value) # "array"
    /\ result.value = ElementAt(schema, 2)

\* the path without the character at position j
Without(j) == SubSeq(path, 1, j) \o SubSeq(path, j + 2, Len(path))

\* position j holds a "." that stands right before a bracket group, at the
\* start of the path or behind one property name
DotBeforeBracket(j) ==
    /\ At(path, j) = "."
    /\ j + 1 < Len(path)
    /\ At(path, j + 1) = "["
    /\ \A h \in 0..(j - 1) : At(path, h) \notin {".", "[", "]"}

(* C25: a single "." in front of a bracket group is stripped: the          *)
(* well-formed paths "." p and a "." p, p starting with a bracket group    *)
(* and a a property name, parse to the segments of p and of a p.           *)
C25_DotBeforeBracketStripped ==
    \A j \in Positions :
        (pc # "call" /\ WellFormed /\ DotBeforeBracket(j))
        => /\ parsePath(Without(j)).ok
           /\ segments = parsePath(Without(j)).segments
           /\ ~(Failed /\ result.error.error \in MalformedPathErrors)

C25_Witness ==
    /\ Done
    /\ WellFormed
    /\ Len(path) > 2
    /\ DotBeforeBracket(1)
    /\ Len(segments) = 2
    /\ segments[2].type = "index"
    /\ segments = parsePath(Without(1)).segments

\* the kinds the guards know; a node of any other kind is a leaf
GuardedKinds == ContainerKinds \cup WrapperKinds

\* the guard of a kind holds of node n
GuardHolds(kind, n) ==
    CASE kind = "object"   -> isZodObject(n)
      [] kind = "array"    -> isZodArray(n)
      [] kind = "record"   -> isZodRecord(n)
      [] kind = "tuple"    -> isZodTuple(n)
      [] kind = "union"    -> isZodUnion(n)
      [] kind = "optional" -> isZodOptional(n)
      [] kind = "nullable" -> isZodNullable(n)
      [] kind = "default"  -> isZodDefault(n)
      [] kind = "readonly" -> isZodReadonly(n)
      [] kind = "lazy"     -> isZodLazy(n)
      [] kind = "pipe"     -> isZodPipe(n)

IsLeaf(n) == n \in Nodes /\ KindOf(n) \notin GuardedKinds

(* C26: classification follows the kind tag alone: of every root at most   *)
(* one guard holds, the one of its tag, and none of a leaf; a leaf is      *)
(* dispatched on at most once, by the step that fails, also when it holds  *)
(* fields named like the accessors of the containers.                      *)
C26_ClassifiedByTagOnly ==
    /\ {kind \in GuardedKinds : GuardHolds(kind, schema)}
          = {KindOf(schema)} \cap GuardedKinds
    /\ \A i \in 1..Len(visited) :
          IsLeaf(visited[i])
          => /\ i = Len(visited)
             /\ Failed
             /\ result.error.error \in PathResolutionErrors
             /\ result.error.got = KindOf(visited[i])

C26_Witness ==
    /\ FailedAtSegment
    /\ k = 2
    /\ segments[k].type = "element"
    /\ IsLeaf(current)
    /\ "element" \in DOMAIN Registry[current]
    /\ result.error.got = "string"

\* the path before position j, and the path behind it
Before(j) == SubSeq(path, 1, j)
Behind(j) == SubSeq(path, j + 2, Len(path))

\* an outcome without the path its message quotes: the node returned, or
\* the reason of the failure
Reason(r) ==
    IF r.status = "thrown" /\ "path" \in DOMAIN r.error
    THEN [r EXCEPT !.error.path = <<>>]
    ELSE r

(* C27: resolution composes over concatenation: for a well-formed path     *)
(* p "." q, if select(S, p) returns N then select(S, p "." q) has the      *)
(* outcome of select(N, q): the same node, or a failure with the same      *)
(* reason.                                                                 *)
C27_ComposesOverConcatenation ==
    (Done /\ (\E j \in Positions : At(path, j) = ".") /\ WellFormed)
        => \A j \in Positions :
              ( /\ At(path, j) = "."
                /\ select(schema, Before(j)).status = "returned" )
              => Reason(result)
                    = Reason(select(select(schema, Before(j)).value, Behind(j)))

C27_Witness ==
    /\ Failed
    /\ WellFormed
    /\ \E j \in Positions :
          /\ j > 0
          /\ At(path, j) = "."
          /\ select(schema, Before(j)).status = "returned"
          /\ select(schema, Before(j)).value \in Nodes
          /\ KindOf(select(schema, Before(j)).value) \in WrapperKinds
          /\ k = 2
          /\ result.error.path = path
          /\ Reason(result)
                = Reason(select(select(schema, Before(j)).value, Behind(j)))

\* the number of nodes dispatched on: the visited values that are no
\* wrappers
Dispatched ==
    Cardinality({i \in 1..Len(visited) :
                    visited[i] \notin Nodes \/ KindOf(visited[i]) \notin WrapperKinds})

(* C28: a failure of the traversal is the failure of the leftmost segment  *)
(* that cannot be applied: the segments before it were applied one after   *)
(* the other and led to the node it fails on, and no segment to its right  *)
(* is dispatched; stated for the schemas whose chains of wrappers end.     *)
C28_LeftmostFailureReported ==
    (FailedAtSegment /\ WrappersEnd(schema))
        => /\ fold(schema, SubSeq(segments, 1, k - 1), 1, path) = Returned(current)
           /\ result = traverseSegment(current, segments[k], path)
           /\ Dispatched = k

\* the first of three segments fails, and the second would fail too
C28_Witness ==
    /\ FailedAtSegment
    /\ Len(segments) = 3
    /\ k = 1
    /\ visited = <<schema>>
    /\ segments[1].type = "index"
    /\ segments[2].type = "property"
    /\ result.error.error = "cannot use [n] on non-tuple/union schema"
    /\ traverseSegment(schema, segments[2], path).status = "thrown"

---------------------------------------------------------------------------
(* The legacy selectSchemaAt (old/select.ts): the path is split at the     *)
(* dots, and one call takes the first segment and calls itself with the    *)
(* rest.  Its guards are imported from "./traversable", which tests the    *)
(* same kind tag as the guards above.                                      *)

\* the legacy test schema, wrapper-free, with one-letter property names and
\* the properties "*" and "0"
OldRegistry ==
    <<  \* 1: z.object({ a, c, d, "*", "0" })
        [type |-> "object",
         shape |-> (Name("a") :> 2) @@ (Name("c") :> 3) @@ (Name("d") :> 4)
                     @@ (Name("*") :> 5) @@ (Name("0") :> 6)],
        \* 2: z.tuple([string, number, object])
        [type |-> "tuple", items |-> <<6, 7, 8>>],
        \* 3: z.union([object, string])
        [type |-> "union", options |-> <<8, 6>>],
        \* 4: z.array(tuple)
        [type |-> "array", element |-> 2],
        \* 5: z.record(z.string(), union)
        [type |-> "record", valueType |-> 3],
        \* 6, 7: z.string(), z.number()
        [type |-> "string"],
        [type |-> "number"],
        \* 8: z.object({ a, c })
        [type |-> "object", shape |-> (Name("a") :> 6) @@ (Name("c") :> 4)] >>

OldNodes == DOMAIN OldRegistry

\* the segments the legacy paths are made of
OldPieces ==
    { <<"a">>, <<"c">>, <<"*">>, <<"0">>, <<"2">>, <<"3">>, <<"0", "1">>,
      <<"-", "1">>, <<>>,
      <<"c", "o", "n", "s", "t", "r", "u", "c", "t", "o", "r">> }

RECURSIVE OldPaths(_)
\* one to n pieces with a dot between them
OldPaths(n) ==
    IF n = 1 THEN OldPieces
    ELSE LET shorter == OldPaths(n - 1)
         IN  shorter \cup {q \o <<".">> \o piece : q \in shorter, piece \in OldPieces}

RECURSIVE split(_)
\* path.split(".")
split(p) ==
    LET dot == indexOf(p, ".", 0)
    IN  IF dot = -1 THEN <<p>>
        ELSE <<slice(p, 0, dot)>> \o split(slice(p, dot + 1, Len(p)))

\* Number.prototype.toString of what parseInt gave
toString(n) ==
    IF n.isNaN THEN <<"N", "a", "N">>
    ELSE IF n.value < 0 THEN <<"-">> \o Decimal(0 - n.value)
    ELSE Decimal(n.value)

\* parseInt(segment).toString() === segment; a radix-less parseInt differs
\* from the decimal one on "0x..." only, which never equals its own value
isTupleIndex(segment) == toString(parseInt(segment)) = segment

isArrayIndex(segment) == segment = <<"*">>

\* typeof segment === "string"
isObjectIndex(segment) == TRUE

\* the Errors of selectSchemaAt
InvalidSegmentType(kind, segment) ==
    [error |-> "Invalid segment type", kind |-> kind, segment |-> segment]
InvalidIndexOf(kind, segment) ==
    [error |-> "Invalid index", kind |-> kind, segment |-> segment]
CantTraverse == [error |-> "Can't traverse the given schema"]

\* typeof list[segment] === "undefined", for an Array and a string that
\* isTupleIndex let through
undefinedAt(list, segment) ==
    LET n == parseInt(segment)
    IN  n.isNaN \/ n.value < 0 \/ n.value >= Len(list)

\* typeof schema.shape[segment] === "undefined": the lookup also finds what
\* Object.prototype gives the shape object
undefinedIn(shape, segment) ==
    segment \notin DOMAIN shape /\ segment \notin ObjectPrototypeKeys

\* lines 95-148 of one call: the child the first segment selects, or the
\* Error thrown
childAt(s, segment) ==
    IF isZodTuple(s) THEN
        IF ~isTupleIndex(segment) THEN Thrown(InvalidSegmentType("ZodTuple", segment))
        ELSE IF undefinedAt(tree[s].items, segment)
        THEN Thrown(InvalidIndexOf("ZodTuple", segment))
        ELSE Returned(tree[s].items[parseInt(segment).value + 1])
    ELSE IF isZodUnion(s) THEN
        IF ~isTupleIndex(segment) THEN Thrown(InvalidSegmentType("ZodUnion", segment))
        ELSE IF undefinedAt(tree[s].options, segment)
        THEN Thrown(InvalidIndexOf("ZodUnion", segment))
        ELSE Returned(tree[s].options[parseInt(segment).value + 1])
    ELSE IF isZodArray(s) THEN
        IF ~isArrayIndex(segment) THEN Thrown(InvalidSegmentType("ZodArray", segment))
        ELSE Returned(tree[s].element)
    ELSE IF isZodRecord(s) THEN
        IF ~isArrayIndex(segment) THEN Thrown(InvalidSegmentType("ZodRecord", segment))
        ELSE Returned(tree[s].valueType)
    ELSE IF isZodObject(s) THEN
        IF ~isObjectIndex(segment) THEN Thrown(InvalidSegmentType("ZodObject", segment))
        ELSE IF undefinedIn(tree[s].shape, segment)
        THEN Thrown(InvalidIndexOf("ZodObject", segment))
        ELSE Returned(getProperty(tree[s].shape, segment))
    ELSE Thrown(CantTraverse)

RECURSIVE selectSchemaAtPath(_, _)
\* selectSchemaAt on an array path
selectSchemaAtPath(s, arrayPath) ==
    LET child == childAt(s, Head(arrayPath))
        rest  == Tail(arrayPath)
    IN  IF child.status = "thrown" \/ rest = <<>> THEN child
        ELSE selectSchemaAtPath(child.value, rest)

\* selectSchemaAt(schema, path) on a string path
selectSchemaAt(s, p) == selectSchemaAtPath(s, split(p))

InitOld ==
    /\ schema \in OldNodes
    /\ path \in OldPaths(MaxPieces)
    /\ pc = "old-call"
    /\ segments = <<>>
    /\ k = 1
    /\ current = schema
    /\ result = NoResult
    /\ forced = {}
    /\ visited = <<>>
    /\ tree = OldRegistry
    /\ earlier = <<>>

\* line 89: the string path is split
OldSplit ==
    /\ pc = "old-call"
    /\ segments' = split(path)
    /\ pc' = "old-select"
    /\ UNCHANGED <<tree, earlier, schema, path, k, current, result, forced, visited>>

\* line 93, rest.length > 0: selectSchemaAt is called on the child with the
\* rest of the path
OldSelectRest ==
    /\ pc = "old-select"
    /\ childAt(current, segments[k]).status = "returned"
    /\ k < Len(segments)
    /\ current' = childAt(current, segments[k]).value
    /\ visited' = Append(visited, current)
    /\ k' = k + 1
    /\ UNCHANGED <<tree, earlier, schema, path, segments, pc, result, forced>>

\* line 93, rest.length = 0: the child is returned through every call
OldSelectChild ==
    /\ pc = "old-select"
    /\ childAt(current, segments[k]).status = "returned"
    /\ k = Len(segments)
    /\ result' = childAt(current, segments[k])
    /\ visited' = Append(visited, current)
    /\ pc' = "done"
    /\ UNCHANGED <<tree, earlier, schema, path, segments, k, current, forced>>

\* one of the throw statements of lines 97-148
OldThrows ==
    /\ pc = "old-select"
    /\ childAt(current, segments[k]).status = "thrown"
    /\ result' = childAt(current, segments[k])
    /\ visited' = Append(visited, current)
    /\ pc' = "done"
    /\ UNCHANGED <<tree, earlier, schema, path, segments, k, current, forced>>

NextOld == OldSplit \/ OldSelectRest \/ OldSelectChild \/ OldThrows

SpecOld == InitOld /\ [][NextOld]_vars

\* the step-by-step legacy call and the function give the same outcome
OldStepsAgree == Done => result = selectSchemaAt(schema, path)

\* a decimal integer in the claim's sense: digits only, written as the
\* number prints
IsDecimalInteger(segment) ==
    /\ segment # <<>>
    /\ \A i \in 1..Len(segment) : segment[i] \in Digits
    /\ (Len(segment) > 1 => segment[1] # "0")

\* the child of node n the segment stands for, by the kind of n: a set of
\* one node, or of none
ClaimedChild(n, segment) ==
    LET node == OldRegistry[n]
        list == IF node.type = "tuple" THEN node.items ELSE node.options
    IN  CASE node.type \in {"tuple", "union"} ->
                IF IsDecimalInteger(segment)
                   /\ DecimalValue(segment) < Len(list)
                THEN {list[DecimalValue(segment) + 1]} ELSE {}
          [] node.type = "array" ->
                IF segment = <<"*">> THEN {node.element} ELSE {}
          [] node.type = "record" ->
                IF segment = <<"*">> THEN {node.valueType} ELSE {}
          [] node.type = "object" ->
                IF segment \in DOMAIN node.shape THEN {node.shape[segment]}
                ELSE {}
          [] OTHER -> {}

RECURSIVE ClaimedAt(_, _)
\* the node the segments lead to from n, one child per segment
ClaimedAt(n, segs) ==
    IF segs = <<>> THEN {n}
    ELSE UNION {ClaimedAt(child, Tail(segs)) : child \in ClaimedChild(n, Head(segs))}

(* C29: a finished call of the legacy selectSchemaAt on a wrapper-free     *)
(* schema returns the node its dot-separated segments lead to, one child   *)
(* per segment by the kind of the current node (a decimal integer on a     *)
(* tuple or union, "*" on an array or record, a declared name on an        *)
(* object), the last container reached being returned as it is; it fails   *)
(* when a segment does not fit the kind, names a missing item, option or   *)
(* property, or is applied to a node that is no container.                 *)
C29_LegacySelectsByKind ==
    Done => IF ClaimedAt(schema, segments) = {}
            THEN result.status = "thrown"
            ELSE /\ result.status = "returned"
                 /\ ClaimedAt(schema, segments) = {result.value}

\* the same, for the paths that name nothing Object.prototype defines
LegacySelectsDeclaredByKind ==
    (Done /\ \A i \in 1..Len(segments) : segments[i] \notin ObjectPrototypeKeys)
        => C29_LegacySelectsByKind

\* the step-by-step call and the function `select` give the same outcome
StepsAgreeWithSelect == Done => result = select(schema, path)

=============================================================================
